---- MODULE Spec2Model ----
(***************************************************************************)
(* State-machine model of src/src/decoder/_flac_common.c: the session      *)
(* object (struct flac_data) shared by the FLAC and OggFLAC decoder        *)
(* plugins, and the callbacks the decoding library drives on it            *)
(* (metadata, error, write) plus the format negotiation the plugin calls.  *)
(***************************************************************************)
EXTENDS Integers, Sequences, FiniteSets, TLC

VARIABLES
    data,       \* struct flac_data: the session
    event,      \* the last event dispatched into the session and what it produced
    hist,       \* history of the session: counters and sums over the events so far
    calc        \* SpecBitRate, SpecTrack only: one computation, inputs and result

vars == <<data, event, hist, calc>>

(***************************************************************************)
(* Bounds of the model.                                                    *)
(***************************************************************************)
\* frame-write events per session
MaxFrames == 2

(***************************************************************************)
(* Fixed-width unsigned arithmetic.  A C unsigned value of w bytes is a    *)
(* little-endian sequence of w bytes (each 0..255); every operation keeps  *)
(* the width of its C type, i.e. computes modulo 256^w.                    *)
(***************************************************************************)
RECURSIVE Zeros(_)
Zeros(w) == IF w <= 0 THEN <<>> ELSE <<0>> \o Zeros(w - 1)

\* integer conversion between unsigned types: zero-extend or truncate
Convert(a, w) ==
    IF w <= Len(a) THEN SubSeq(a, 1, w) ELSE a \o Zeros(w - Len(a))

\* a natural below 2^31 as a w-byte unsigned (w >= 4 keeps it exact)
ToBytes(n, w) ==
    Convert(<<n % 256, (n \div 256) % 256, (n \div 65536) % 256,
              (n \div 16777216) % 256>>, w)

RECURSIVE ColumnSum(_, _, _, _)
\* sum of a[i] * b[k+1-i] for i in 1..n
ColumnSum(a, b, k, n) ==
    IF n = 0 THEN 0
    ELSE (IF k + 1 - n <= Len(b) /\ n <= Len(a) THEN a[n] * b[k + 1 - n] ELSE 0)
         + ColumnSum(a, b, k, n - 1)

RECURSIVE MulFrom(_, _, _, _, _)
MulFrom(a, b, k, carry, w) ==
    IF k > w THEN <<>>
    ELSE LET s == ColumnSum(a, b, k, k) + carry
         IN <<s % 256>> \o MulFrom(a, b, k + 1, s \div 256, w)

\* a * b in an unsigned type of w bytes
Mul(a, b, w) == MulFrom(a, b, 1, 0, w)

RECURSIVE GeqFrom(_, _, _)
\* a >= b, comparing from byte i down (a and b of equal length)
GeqFrom(a, b, i) ==
    IF i = 0 THEN TRUE
    ELSE IF a[i] > b[i] THEN TRUE
    ELSE IF a[i] < b[i] THEN FALSE
    ELSE GeqFrom(a, b, i - 1)

Geq(a, b) == GeqFrom(a, b, Len(a))

RECURSIVE SubFrom(_, _, _, _)
SubFrom(a, b, i, borrow) ==
    IF i > Len(a) THEN <<>>
    ELSE LET s == a[i] - b[i] - borrow
         IN <<(s + 256) % 256>> \o SubFrom(a, b, i + 1, IF s < 0 THEN 1 ELSE 0)

\* a - b for a >= b (equal lengths)
Sub(a, b) == SubFrom(a, b, 1, 0)

RECURSIVE QuotientDigit(_, _, _, _)
\* the largest digit in 0..255 with den * digit <= rem, found bit by bit
QuotientDigit(rem, den, digit, bit) ==
    IF bit = 0 THEN digit
    ELSE IF Geq(rem, Mul(den, ToBytes(digit + bit, 2), Len(rem)))
         THEN QuotientDigit(rem, den, digit + bit, bit \div 2)
         ELSE QuotientDigit(rem, den, digit, bit \div 2)

RECURSIVE DivFrom(_, _, _, _)
\* one step of the long division: digit is the quotient digit for rem
DivDigit(num, den, i, rem, digit) ==
    <<digit>> \o
    DivFrom(num, den, i - 1, Sub(rem, Mul(den, ToBytes(digit, 2), Len(rem))))

\* long division, byte i of num down to byte 1; rem is the running remainder
\* and den the divisor, both two bytes wider than the divisor's type;
\* returns the quotient digits, most significant first
DivFrom(num, den, i, rem) ==
    IF i = 0 THEN <<>>
    ELSE DivDigit(num, den, i, Convert(<<num[i]>> \o rem, Len(den)),
                  QuotientDigit(Convert(<<num[i]>> \o rem, Len(den)), den, 0, 128))

Reverse(s) == [i \in 1..Len(s) |-> s[Len(s) + 1 - i]]

\* floor(a / d) for d # 0, as wide as a
Div(a, d) ==
    Reverse(DivFrom(a, Convert(d, Len(d) + 2), Len(a), Zeros(Len(d) + 2)))

(***************************************************************************)
(* Enumerations.                                                           *)
(***************************************************************************)
SAMPLE_FORMAT_UNDEFINED == "SAMPLE_FORMAT_UNDEFINED"
SAMPLE_FORMAT_S8 == "SAMPLE_FORMAT_S8"
SAMPLE_FORMAT_S16 == "SAMPLE_FORMAT_S16"
SAMPLE_FORMAT_S24 == "SAMPLE_FORMAT_S24"
SAMPLE_FORMAT_S24_P32 == "SAMPLE_FORMAT_S24_P32"
SAMPLE_FORMAT_S32 == "SAMPLE_FORMAT_S32"

DECODE_COMMAND_NONE == "DECODE_COMMAND_NONE"
DECODE_COMMAND_START == "DECODE_COMMAND_START"
DECODE_COMMAND_STOP == "DECODE_COMMAND_STOP"
DECODE_COMMAND_SEEK == "DECODE_COMMAND_SEEK"
Commands ==
    {DECODE_COMMAND_NONE, DECODE_COMMAND_START, DECODE_COMMAND_STOP,
     DECODE_COMMAND_SEEK}

WRITE_STATUS_CONTINUE == "FLAC__STREAM_DECODER_WRITE_STATUS_CONTINUE"
WRITE_STATUS_ABORT == "FLAC__STREAM_DECODER_WRITE_STATUS_ABORT"

ERROR_STATUS_LOST_SYNC == "FLAC__STREAM_DECODER_ERROR_STATUS_LOST_SYNC"
ERROR_STATUS_BAD_HEADER == "FLAC__STREAM_DECODER_ERROR_STATUS_BAD_HEADER"
ERROR_STATUS_FRAME_CRC_MISMATCH ==
    "FLAC__STREAM_DECODER_ERROR_STATUS_FRAME_CRC_MISMATCH"
ERROR_STATUS_UNPARSEABLE_STREAM ==
    "FLAC__STREAM_DECODER_ERROR_STATUS_UNPARSEABLE_STREAM"
ErrorStatuses ==
    {ERROR_STATUS_LOST_SYNC, ERROR_STATUS_BAD_HEADER,
     ERROR_STATUS_FRAME_CRC_MISMATCH, ERROR_STATUS_UNPARSEABLE_STREAM}

METADATA_TYPE_STREAMINFO == "FLAC__METADATA_TYPE_STREAMINFO"
METADATA_TYPE_VORBIS_COMMENT == "FLAC__METADATA_TYPE_VORBIS_COMMENT"
METADATA_TYPE_CUESHEET == "FLAC__METADATA_TYPE_CUESHEET"
METADATA_TYPE_PADDING == "FLAC__METADATA_TYPE_PADDING"
METADATA_TYPE_UNDEFINED == "FLAC__METADATA_TYPE_UNDEFINED"

NULL == "NULL"

(***************************************************************************)
(* Inputs of the events.                                                   *)
(***************************************************************************)
\* FLAC__StreamMetadata_StreamInfo values a STREAMINFO block may carry:
\* every sample width of the switch and one outside it, stereo and mono,
\* and the rate and channel count the validating constructor rejects
StreamInfos ==
    [sample_rate : {44100}, channels : {2}, bits_per_sample : {8, 12, 16, 24, 32}]
    \cup [sample_rate : {44100}, channels : {0, 1}, bits_per_sample : {16}]
    \cup [sample_rate : {0}, channels : {2}, bits_per_sample : {16}]

\* metadata blocks the decoding library may pass
Blocks ==
    [type : {METADATA_TYPE_STREAMINFO}, stream_info : StreamInfos]
    \cup [type : {METADATA_TYPE_VORBIS_COMMENT}, replay_gain : BOOLEAN]
    \cup [type : {METADATA_TYPE_CUESHEET, METADATA_TYPE_PADDING,
                  METADATA_TYPE_UNDEFINED}]

\* frames the decoding library may pass: the header (blocksize >= 1, so
\* that the divisor of the bit rate is not zero) and the compressed byte
\* count (the nbytes argument)
Frames ==
    {[blocksize |-> 4096, channels |-> 2, sample_rate |-> 44100, nbytes |-> 44100],
     [blocksize |-> 1152, channels |-> 1, sample_rate |-> 48000, nbytes |-> 0]}

\* error callbacks the decoding library may make: the name the FLAC or the
\* OggFLAC plugin passes on, and the status; each status of the switch and
\* one outside it, each plugin with a message that starts with its name
\* and one that has it in the middle
ErrorCalls ==
    {[plugin |-> "flac", status |-> ERROR_STATUS_LOST_SYNC],
     [plugin |-> "flac", status |-> ERROR_STATUS_BAD_HEADER],
     [plugin |-> "oggflac", status |-> ERROR_STATUS_FRAME_CRC_MISMATCH],
     [plugin |-> "oggflac", status |-> ERROR_STATUS_UNPARSEABLE_STREAM]}

\* what the fields flac_data_init leaves unset may hold
IndeterminateStreamInfos ==
    {[sample_rate |-> 0, channels |-> 0, bits_per_sample |-> 0],
     [sample_rate |-> 48000, channels |-> 6, bits_per_sample |-> 20]}
IndeterminateSampleFormats == {SAMPLE_FORMAT_UNDEFINED, SAMPLE_FORMAT_S16}
IndeterminateFrameSizes == {0, 4}

(***************************************************************************)
(* Collaborators of the core that live outside _flac_common.c.             *)
(***************************************************************************)
\* bytes of one sample of a format
sample_width_bytes(format) ==
    CASE format = SAMPLE_FORMAT_S8 -> 1
      [] format = SAMPLE_FORMAT_S16 -> 2
      [] format = SAMPLE_FORMAT_S24 -> 3
      [] format = SAMPLE_FORMAT_S24_P32 -> 4
      [] format = SAMPLE_FORMAT_S32 -> 4
      [] OTHER -> 0

\* the validating constructor of an audio format
audio_format_init_checked(sample_rate, sample_format, channels) ==
    IF sample_rate = 0 THEN
        [ok |-> FALSE, audio_format |-> NULL, message |-> "Invalid sample rate"]
    ELSE IF sample_format = SAMPLE_FORMAT_UNDEFINED THEN
        [ok |-> FALSE, audio_format |-> NULL, message |-> "Invalid sample format"]
    ELSE IF channels = 0 THEN
        [ok |-> FALSE, audio_format |-> NULL, message |-> "Invalid channel count"]
    ELSE
        [ok |-> TRUE,
         audio_format |-> [sample_rate |-> sample_rate, format |-> sample_format,
                           channels |-> channels],
         message |-> NULL]

audio_format_frame_size(af) == sample_width_bytes(af.format) * af.channels

\* the reusable output buffer: grows when the request exceeds its capacity
pcm_buffer_init == [size |-> 0]
pcm_buffer_get(buffer, size) ==
    IF size > buffer.size THEN [size |-> size] ELSE buffer
\* releases the memory: the capacity returns to zero
pcm_buffer_deinit(buffer) == [size |-> 0]

\* the frame converter: interleaves `channels` planes of `blocksize` samples
\* in the byte width of `sample_format`; the bytes it writes
flac_convert(channels, sample_format, blocksize) ==
    blocksize * channels * sample_width_bytes(sample_format)

(***************************************************************************)
(* _flac_common.c                                                          *)
(***************************************************************************)
\* flac_data_init: stream_info, sample_format and frame_size are not set
flac_data_init(stream_info, sample_format, frame_size) ==
    [buffer |-> pcm_buffer_init,
     have_stream_info |-> FALSE,
     stream_info |-> stream_info,
     sample_format |-> sample_format,
     frame_size |-> frame_size,
     first_frame |-> 0,
     next_frame |-> 0,
     position |-> 0,
     decoder |-> "decoder",
     input_stream |-> "input_stream",
     tag |-> NULL]

\* flac_data_deinit: the session after teardown and the calls made; the
\* tag pointer is freed, not cleared
flac_data_deinit(d) ==
    [data |-> [d EXCEPT !.buffer = pcm_buffer_deinit(d.buffer)],
     calls |-> <<"pcm_buffer_deinit">>
               \o (IF d.tag # NULL THEN <<"tag_free">> ELSE <<>>)]

\* mutant: 24-bit samples taken for the packed 3-byte format
flac_sample_format_packed24(si) ==
    CASE si.bits_per_sample = 8 -> SAMPLE_FORMAT_S8
      [] si.bits_per_sample = 16 -> SAMPLE_FORMAT_S16
      [] si.bits_per_sample = 24 -> SAMPLE_FORMAT_S24
      [] si.bits_per_sample = 32 -> SAMPLE_FORMAT_S32
      [] OTHER -> SAMPLE_FORMAT_UNDEFINED

flac_sample_format(si) ==
    CASE si.bits_per_sample = 8 -> SAMPLE_FORMAT_S8
      [] si.bits_per_sample = 16 -> SAMPLE_FORMAT_S16
      [] si.bits_per_sample = 24 -> SAMPLE_FORMAT_S24_P32
      [] si.bits_per_sample = 32 -> SAMPLE_FORMAT_S32
      [] OTHER -> SAMPLE_FORMAT_UNDEFINED

\* mutant: a successful negotiation uses the stream info up
flac_data_get_audio_format_once(d) ==
    IF ~d.have_stream_info THEN
        [data |-> d, ok |-> FALSE, audio_format |-> NULL,
         warning |-> "no STREAMINFO packet found"]
    ELSE
        LET d1 == [d EXCEPT !.sample_format = flac_sample_format(d.stream_info)]
            checked == audio_format_init_checked(d1.stream_info.sample_rate,
                                                 d1.sample_format,
                                                 d1.stream_info.channels)
        IN IF ~checked.ok THEN
               [data |-> d1, ok |-> FALSE, audio_format |-> NULL,
                warning |-> checked.message]
           ELSE
               [data |-> [d1 EXCEPT !.frame_size =
                              audio_format_frame_size(checked.audio_format),
                                    !.have_stream_info = FALSE],
                ok |-> TRUE, audio_format |-> checked.audio_format,
                warning |-> NULL]

\* mutant: the frame size is not cached
flac_data_get_audio_format_no_frame_size(d) ==
    IF ~d.have_stream_info THEN
        [data |-> d, ok |-> FALSE, audio_format |-> NULL,
         warning |-> "no STREAMINFO packet found"]
    ELSE
        LET d1 == [d EXCEPT !.sample_format = flac_sample_format(d.stream_info)]
            checked == audio_format_init_checked(d1.stream_info.sample_rate,
                                                 d1.sample_format,
                                                 d1.stream_info.channels)
        IN IF ~checked.ok THEN
               [data |-> d1, ok |-> FALSE, audio_format |-> NULL,
                warning |-> checked.message]
           ELSE
               [data |-> d1, ok |-> TRUE, audio_format |-> checked.audio_format,
                warning |-> NULL]

\* mutant: have_stream_info is not tested
flac_data_get_audio_format_unchecked(d) ==
    LET d1 == [d EXCEPT !.sample_format = flac_sample_format(d.stream_info)]
        checked == audio_format_init_checked(d1.stream_info.sample_rate,
                                             d1.sample_format,
                                             d1.stream_info.channels)
    IN IF ~checked.ok THEN
           [data |-> d1, ok |-> FALSE, audio_format |-> NULL,
            warning |-> checked.message]
       ELSE
           [data |-> [d1 EXCEPT !.frame_size =
                          audio_format_frame_size(checked.audio_format)],
            ok |-> TRUE, audio_format |-> checked.audio_format,
            warning |-> NULL]

\* flac_data_get_audio_format: the session after the call, the returned
\* bool, the audio format written through the out parameter (NULL: not
\* written) and the warning logged
flac_data_get_audio_format(d) ==
    IF ~d.have_stream_info THEN
        [data |-> d, ok |-> FALSE, audio_format |-> NULL,
         warning |-> "no STREAMINFO packet found"]
    ELSE
        LET d1 == [d EXCEPT !.sample_format = flac_sample_format(d.stream_info)]
            checked == audio_format_init_checked(d1.stream_info.sample_rate,
                                                 d1.sample_format,
                                                 d1.stream_info.channels)
        IN IF ~checked.ok THEN
               [data |-> d1, ok |-> FALSE, audio_format |-> NULL,
                warning |-> checked.message]
           ELSE
               [data |-> [d1 EXCEPT !.frame_size =
                              audio_format_frame_size(checked.audio_format)],
                ok |-> TRUE, audio_format |-> checked.audio_format,
                warning |-> NULL]

\* mutant: the extracted replay gain is not released
flac_metadata_common_cb_no_free(block, d) ==
    CASE block.type = METADATA_TYPE_STREAMINFO ->
            [data |-> [d EXCEPT !.stream_info = block.stream_info,
                                !.have_stream_info = TRUE],
             calls |-> <<>>]
      [] block.type = METADATA_TYPE_VORBIS_COMMENT ->
            [data |-> d,
             calls |-> (IF block.replay_gain
                        THEN <<"decoder_replay_gain">>
                        ELSE <<>>)
                       \o (IF d.tag # NULL
                           THEN <<"flac_vorbis_comments_to_tag">>
                           ELSE <<>>)]
      [] OTHER -> [data |-> d, calls |-> <<>>]

\* mutant: the first STREAMINFO block is kept
flac_metadata_common_cb_first_wins(block, d) ==
    CASE block.type = METADATA_TYPE_STREAMINFO ->
            [data |-> IF d.have_stream_info THEN d
                      ELSE [d EXCEPT !.stream_info = block.stream_info,
                                     !.have_stream_info = TRUE],
             calls |-> <<>>]
      [] block.type = METADATA_TYPE_VORBIS_COMMENT ->
            [data |-> d,
             calls |-> (IF block.replay_gain
                        THEN <<"decoder_replay_gain", "replay_gain_info_free">>
                        ELSE <<>>)
                       \o (IF d.tag # NULL
                           THEN <<"flac_vorbis_comments_to_tag">>
                           ELSE <<>>)]
      [] OTHER -> [data |-> d, calls |-> <<>>]

\* mutant: the stream_info member of the block's union is copied for
\* every block type
flac_metadata_common_cb_any_type(block, d) ==
    CASE block.type = METADATA_TYPE_STREAMINFO ->
            [data |-> [d EXCEPT !.stream_info = block.stream_info,
                                !.have_stream_info = TRUE],
             calls |-> <<>>]
      [] block.type = METADATA_TYPE_VORBIS_COMMENT ->
            [data |-> [d EXCEPT !.stream_info =
                           [sample_rate |-> 0, channels |-> 0,
                            bits_per_sample |-> 0]],
             calls |-> (IF block.replay_gain
                        THEN <<"decoder_replay_gain", "replay_gain_info_free">>
                        ELSE <<>>)
                       \o (IF d.tag # NULL
                           THEN <<"flac_vorbis_comments_to_tag">>
                           ELSE <<>>)]
      [] OTHER -> [data |-> [d EXCEPT !.stream_info =
                                [sample_rate |-> 0, channels |-> 0,
                                 bits_per_sample |-> 0]],
                   calls |-> <<>>]

\* flac_metadata_common_cb: the session after the block and the calls made
flac_metadata_common_cb(block, d) ==
    CASE block.type = METADATA_TYPE_STREAMINFO ->
            [data |-> [d EXCEPT !.stream_info = block.stream_info,
                                !.have_stream_info = TRUE],
             calls |-> <<>>]
      [] block.type = METADATA_TYPE_VORBIS_COMMENT ->
            [data |-> d,
             calls |-> (IF block.replay_gain
                        THEN <<"decoder_replay_gain", "replay_gain_info_free">>
                        ELSE <<>>)
                       \o (IF d.tag # NULL
                           THEN <<"flac_vorbis_comments_to_tag">>
                           ELSE <<>>)]
      [] OTHER -> [data |-> d, calls |-> <<>>]

\* mutant: the stop command is not tested
flac_error_common_cb_unfiltered(plugin, status, cmd) ==
    CASE status = ERROR_STATUS_LOST_SYNC ->
            [warning |-> "lost sync", text |-> <<plugin, " lost sync\n">>]
      [] status = ERROR_STATUS_BAD_HEADER ->
            [warning |-> "bad header", text |-> <<"bad ", plugin, " header\n">>]
      [] status = ERROR_STATUS_FRAME_CRC_MISMATCH ->
            [warning |-> "crc mismatch", text |-> <<plugin, " crc mismatch\n">>]
      [] OTHER ->
            [warning |-> "unknown error",
             text |-> <<"unknown ", plugin, " error\n">>]

\* flac_error_common_cb: the g_warning made; warning is its message
\* without the plugin's name (NULL: nothing is logged), text the pieces of
\* the formatted message; cmd is what decoder_get_command returns
flac_error_common_cb(plugin, status, cmd) ==
    IF cmd = DECODE_COMMAND_STOP THEN [warning |-> NULL, text |-> <<>>]
    ELSE CASE status = ERROR_STATUS_LOST_SYNC ->
                [warning |-> "lost sync", text |-> <<plugin, " lost sync\n">>]
           [] status = ERROR_STATUS_BAD_HEADER ->
                [warning |-> "bad header",
                 text |-> <<"bad ", plugin, " header\n">>]
           [] status = ERROR_STATUS_FRAME_CRC_MISMATCH ->
                [warning |-> "crc mismatch",
                 text |-> <<plugin, " crc mismatch\n">>]
           [] OTHER ->
                [warning |-> "unknown error",
                 text |-> <<"unknown ", plugin, " error\n">>]

\* the bit rate of flac_common_write, in the widths of its C operands:
\* FLAC__uint64 nbytes, unsigned sample_rate and blocksize, unsigned bit_rate
flac_bit_rate(nbytes, sample_rate, blocksize) ==
    IF nbytes > 0 THEN
        Convert(Div(Mul(Mul(ToBytes(nbytes, 8), ToBytes(8, 8), 8),
                        ToBytes(sample_rate, 8), 8),
                    Convert(Mul(ToBytes(1000, 4), ToBytes(blocksize, 4), 4), 8)),
                4)
    ELSE Zeros(4)

\* the bit rates of the frames of the model, computed once
BitRateTable ==
    {<<frame, flac_bit_rate(frame.nbytes, frame.sample_rate, frame.blocksize)>> :
        frame \in Frames}

frame_bit_rate(frame) == (CHOOSE t \in BitRateTable : t[1] = frame)[2]

\* mutant: every frame gets a buffer of its own size, the one of the
\* frame before is dropped
flac_common_write_fresh_buffer(d, frame, cmd) ==
    LET buffer_size == frame.blocksize * d.frame_size
        d1 == [d EXCEPT !.buffer = pcm_buffer_get(pcm_buffer_init, buffer_size)]
        d2 == [d1 EXCEPT !.next_frame = @ + frame.blocksize]
        status == IF cmd = DECODE_COMMAND_STOP THEN WRITE_STATUS_ABORT
                  ELSE WRITE_STATUS_CONTINUE
    IN [data |-> d2,
        status |-> status,
        steps |-> <<[step |-> "pcm_buffer_get", size |-> buffer_size],
                    [step |-> "flac_convert", channels |-> frame.channels,
                     sample_format |-> d1.sample_format,
                     blocksize |-> frame.blocksize,
                     written |-> flac_convert(frame.channels, d1.sample_format,
                                              frame.blocksize)],
                    [step |-> "decoder_data", length |-> buffer_size,
                     bit_rate |-> frame_bit_rate(frame)],
                    [step |-> "next_frame", value |-> d2.next_frame],
                    [step |-> "return", status |-> status]>>]

\* mutant: a seek command makes the frame after this one the first frame
flac_common_write_first_frame_on_seek(d, frame, cmd) ==
    LET buffer_size == frame.blocksize * d.frame_size
        d1 == [d EXCEPT !.buffer = pcm_buffer_get(d.buffer, buffer_size)]
        d2 == [d1 EXCEPT !.next_frame = @ + frame.blocksize,
                         !.first_frame = IF cmd = DECODE_COMMAND_SEEK
                                         THEN d1.next_frame + frame.blocksize
                                         ELSE @]
        status == IF cmd = DECODE_COMMAND_STOP THEN WRITE_STATUS_ABORT
                  ELSE WRITE_STATUS_CONTINUE
    IN [data |-> d2,
        status |-> status,
        steps |-> <<[step |-> "pcm_buffer_get", size |-> buffer_size],
                    [step |-> "flac_convert", channels |-> frame.channels,
                     sample_format |-> d1.sample_format,
                     blocksize |-> frame.blocksize,
                     written |-> flac_convert(frame.channels, d1.sample_format,
                                              frame.blocksize)],
                    [step |-> "decoder_data", length |-> buffer_size,
                     bit_rate |-> frame_bit_rate(frame)],
                    [step |-> "next_frame", value |-> d2.next_frame],
                    [step |-> "return", status |-> status]>>]

\* mutant: a stop command is honoured before the frame is converted,
\* delivered and counted
flac_common_write_stop_first(d, frame, cmd) ==
    IF cmd = DECODE_COMMAND_STOP THEN
        [data |-> d, status |-> WRITE_STATUS_ABORT,
         steps |-> <<[step |-> "return", status |-> WRITE_STATUS_ABORT]>>]
    ELSE
        LET buffer_size == frame.blocksize * d.frame_size
            d1 == [d EXCEPT !.buffer = pcm_buffer_get(d.buffer, buffer_size)]
            d2 == [d1 EXCEPT !.next_frame = @ + frame.blocksize]
        IN [data |-> d2,
            status |-> WRITE_STATUS_CONTINUE,
            steps |-> <<[step |-> "pcm_buffer_get", size |-> buffer_size],
                        [step |-> "flac_convert", channels |-> frame.channels,
                         sample_format |-> d1.sample_format,
                         blocksize |-> frame.blocksize,
                         written |-> flac_convert(frame.channels, d1.sample_format,
                                                  frame.blocksize)],
                        [step |-> "decoder_data", length |-> buffer_size,
                         bit_rate |-> frame_bit_rate(frame)],
                        [step |-> "next_frame", value |-> d2.next_frame],
                        [step |-> "return", status |-> WRITE_STATUS_CONTINUE]>>]

\* mutant: a seek command aborts the decoder like a stop command
flac_common_write_abort_on_seek(d, frame, cmd) ==
    LET buffer_size == frame.blocksize * d.frame_size
        d1 == [d EXCEPT !.buffer = pcm_buffer_get(d.buffer, buffer_size)]
        d2 == [d1 EXCEPT !.next_frame = @ + frame.blocksize]
        status == IF cmd \in {DECODE_COMMAND_STOP, DECODE_COMMAND_SEEK}
                  THEN WRITE_STATUS_ABORT ELSE WRITE_STATUS_CONTINUE
    IN [data |-> d2,
        status |-> status,
        steps |-> <<[step |-> "pcm_buffer_get", size |-> buffer_size],
                    [step |-> "flac_convert", channels |-> frame.channels,
                     sample_format |-> d1.sample_format,
                     blocksize |-> frame.blocksize,
                     written |-> flac_convert(frame.channels, d1.sample_format,
                                              frame.blocksize)],
                    [step |-> "decoder_data", length |-> buffer_size,
                     bit_rate |-> frame_bit_rate(frame)],
                    [step |-> "next_frame", value |-> d2.next_frame],
                    [step |-> "return", status |-> status]>>]

\* flac_common_write: the session after the frame, the status returned to
\* the decoding library and the steps taken, in order; cmd is what the
\* consumer returns from decoder_data.  buffer_size (unsigned * unsigned)
\* and next_frame (FLAC__uint64) stay far below 2^31 for MaxFrames frames
\* of Frames, so neither wraps here.
flac_common_write(d, frame, cmd) ==
    LET buffer_size == frame.blocksize * d.frame_size
        d1 == [d EXCEPT !.buffer = pcm_buffer_get(d.buffer, buffer_size)]
        written == flac_convert(frame.channels, d1.sample_format, frame.blocksize)
        bit_rate == frame_bit_rate(frame)
        d2 == [d1 EXCEPT !.next_frame = @ + frame.blocksize]
        status == IF cmd = DECODE_COMMAND_STOP THEN WRITE_STATUS_ABORT
                  ELSE WRITE_STATUS_CONTINUE
    IN [data |-> d2,
        status |-> status,
        steps |-> <<[step |-> "pcm_buffer_get", size |-> buffer_size],
                    [step |-> "flac_convert", channels |-> frame.channels,
                     sample_format |-> d1.sample_format,
                     blocksize |-> frame.blocksize, written |-> written],
                    [step |-> "decoder_data", length |-> buffer_size,
                     bit_rate |-> bit_rate],
                    [step |-> "next_frame", value |-> d2.next_frame],
                    [step |-> "return", status |-> status]>>]

(***************************************************************************)
(* Virtual track names (flac_cue_track, flac_vtrack_tnum).  A C string is  *)
(* the sequence of its characters, without the terminating NUL.            *)
(***************************************************************************)
DecimalDigit == <<"0", "1", "2", "3", "4", "5", "6", "7", "8", "9">>

isdigit(c) == \E v \in 0..9 : DecimalDigit[v + 1] = c
DigitValue(c) == CHOOSE v \in 0..9 : DecimalDigit[v + 1] = c

\* isspace in the C locale (the vertical tab, which has no escape here,
\* is left out)
isspace(c) == c \in {" ", "\t", "\n", "\r", "\f"}

RECURSIVE ConvertUnsigned(_)
\* the %u conversion: the decimal digits of n, no leading zero
ConvertUnsigned(n) ==
    IF n < 10 THEN <<DecimalDigit[n + 1]>>
    ELSE ConvertUnsigned(n \div 10) \o <<DecimalDigit[(n % 10) + 1]>>

\* the %03u conversion: zero-padded to a minimum width of 3
ConvertUnsignedPad3(n) ==
    LET d == ConvertUnsigned(n)
    IN IF Len(d) >= 3 THEN d ELSE SubSeq(<<"0", "0">>, 1, 3 - Len(d)) \o d

\* g_strdup_printf("track_%03u.flac", tnum)
g_strdup_printf_track(tnum) ==
    <<"t", "r", "a", "c", "k", "_">> \o ConvertUnsignedPad3(tnum)
        \o <<".", "f", "l", "a", "c">>

\* strrchr(s, c): the index of the last c in s, 0 for NULL
strrchr(s, c) ==
    IF \E i \in 1..Len(s) : s[i] = c
    THEN CHOOSE i \in 1..Len(s) :
             s[i] = c /\ \A j \in (i + 1)..Len(s) : s[j] # c
    ELSE 0

RECURSIVE SkipSpace(_, _)
\* the index of the first character of s at or after i that is no white space
SkipSpace(s, i) ==
    IF i <= Len(s) /\ isspace(s[i]) THEN SkipSpace(s, i + 1) ELSE i

RECURSIVE DigitRun(_, _, _)
\* the value of the run of decimal digits of s that starts at i, after acc
DigitRun(s, i, acc) ==
    IF i <= Len(s) /\ isdigit(s[i])
    THEN DigitRun(s, i + 1, acc * 10 + DigitValue(s[i]))
    ELSE acc

\* strtol(s, NULL, 10) for a digit run below 2^31 (no clamping to
\* LONG_MAX): white space is skipped, one sign is accepted, the digits
\* that follow are converted; 0 when there is none.  The long is given as
\* sign and magnitude.
strtol(s) ==
    LET i == SkipSpace(s, 1)
        signed == i <= Len(s) /\ s[i] \in {"+", "-"}
    IN [negative |-> signed /\ s[i] = "-",
        magnitude |-> DigitRun(s, IF signed THEN i + 1 ELSE i, 0)]

\* the conversion (unsigned int) of a long: modulo 2^32, as 4 bytes
ConvertLongToUnsigned(v) ==
    IF v.negative THEN Sub(Zeros(4), ToBytes(v.magnitude, 4))
    ELSE ToBytes(v.magnitude, 4)

\* mutant: the track number may equal the number of tracks
flac_cue_track_inclusive(cs, tnum) ==
    IF ~cs.success THEN [found |-> FALSE, track |-> <<>>]
    ELSE IF cs.num_tracks <= 1 THEN [found |-> FALSE, track |-> <<>>]
    ELSE IF tnum > 0 /\ tnum <= cs.num_tracks
         THEN [found |-> TRUE, track |-> g_strdup_printf_track(tnum)]
    ELSE [found |-> FALSE, track |-> <<>>]

\* flac_cue_track: cs is what FLAC__metadata_get_cuesheet(pathname) gives
\* (success and the cue sheet's num_tracks); found is FALSE for NULL
flac_cue_track(cs, tnum) ==
    IF ~cs.success THEN [found |-> FALSE, track |-> <<>>]
    ELSE IF cs.num_tracks <= 1 THEN [found |-> FALSE, track |-> <<>>]
    ELSE IF tnum > 0 /\ tnum < cs.num_tracks
         THEN [found |-> TRUE, track |-> g_strdup_printf_track(tnum)]
    ELSE [found |-> FALSE, track |-> <<>>]

\* mutant: a number written with a leading zero is not converted
flac_vtrack_tnum_no_leading_zero(fname) ==
    LET ptr == strrchr(fname, "_")
    IN IF ptr = 0 THEN Zeros(4)
       ELSE IF ptr < Len(fname) /\ fname[ptr + 1] = "0" THEN Zeros(4)
       ELSE ConvertLongToUnsigned(strtol(SubSeq(fname, ptr + 1, Len(fname))))

\* flac_vtrack_tnum: the unsigned int returned, as 4 bytes
flac_vtrack_tnum(fname) ==
    LET ptr == strrchr(fname, "_")
    IN IF ptr = 0 THEN Zeros(4)
       ELSE ConvertLongToUnsigned(strtol(SubSeq(fname, ptr + 1, Len(fname))))

(***************************************************************************)
(* The session as a state machine: the events the decoding library and    *)
(* the plugin dispatch into it.                                            *)
(***************************************************************************)
\* no negotiation since the session began or since the last STREAMINFO block
NoNegotiate ==
    [valid |-> FALSE, ok |-> FALSE, audio_format |-> NULL,
     sample_format |-> SAMPLE_FORMAT_UNDEFINED, frame_size |-> 0]

NoCalc ==
    [nbytes |-> 0, sample_rate |-> 0, blocksize |-> 0, done |-> FALSE,
     bit_rate |-> <<>>]

Init ==
    /\ \E si \in IndeterminateStreamInfos, sf \in IndeterminateSampleFormats,
          fs \in IndeterminateFrameSizes :
            data = flac_data_init(si, sf, fs)
    /\ event = [kind |-> "init"]
    /\ hist = [n_writes |-> 0, n_delivered |-> 0, sum_blocks |-> 0,
               streaminfo_seen |-> "none", negotiated |-> FALSE,
               stop_returned |-> FALSE, last_negotiate |-> NoNegotiate]
    /\ calc = NoCalc

\* the number of steps of a write event that hand a buffer to the consumer
Delivered(steps) ==
    Cardinality({i \in 1..Len(steps) : steps[i].step = "decoder_data"})

\* the session exists from flac_data_init to flac_data_deinit
Alive == event.kind # "deinit"

\* the plugin gives the new session a destination tag (data.tag = tag_new())
\* before it runs the decoding library; a session without one keeps NULL
AttachTag ==
    /\ event.kind = "init"
    /\ data' = [data EXCEPT !.tag = "tag"]
    /\ event' = [kind |-> "attach_tag"]
    /\ UNCHANGED <<hist, calc>>

\* metadata callback
Metadata ==
    \E block \in Blocks :
        /\ Alive
        /\ LET r == flac_metadata_common_cb(block, data)
           IN /\ data' = r.data
              /\ event' = [kind |-> "metadata", block |-> block,
                           calls |-> r.calls]
        /\ hist' = [hist EXCEPT
                        !.streaminfo_seen =
                            IF block.type # METADATA_TYPE_STREAMINFO THEN @
                            ELSE IF @ = "none" THEN "one" ELSE "several",
                        !.last_negotiate =
                            IF block.type # METADATA_TYPE_STREAMINFO THEN @
                            ELSE NoNegotiate]
        /\ UNCHANGED calc

\* the plugin asks for the audio format
Negotiate ==
    /\ Alive
    /\ LET r == flac_data_get_audio_format(data)
       IN /\ data' = r.data
          /\ event' = [kind |-> "negotiate", ok |-> r.ok,
                       audio_format |-> r.audio_format,
                       warning |-> r.warning]
          /\ hist' = [hist EXCEPT
                          !.negotiated = @ \/ r.ok,
                          !.last_negotiate =
                              [valid |-> TRUE, ok |-> r.ok,
                               audio_format |-> r.audio_format,
                               sample_format |-> r.data.sample_format,
                               frame_size |-> r.data.frame_size]]
    /\ UNCHANGED calc

\* error callback; cmd is the consumer's command at that time, which the
\* consumer sets from its own scheduling
Error ==
    \E call \in ErrorCalls, cmd \in Commands :
        /\ Alive
        /\ LET r == flac_error_common_cb(call.plugin, call.status, cmd)
           IN event' = [kind |-> "error", plugin |-> call.plugin,
                        status |-> call.status, cmd |-> cmd,
                        warning |-> r.warning, text |-> r.text]
        /\ UNCHANGED <<data, hist, calc>>

\* write callback; the decoding library is run on frames only once the
\* audio format has been negotiated
Write ==
    /\ Alive
    /\ hist.negotiated
    /\ hist.n_writes < MaxFrames
    /\ \E frame \in Frames, cmd \in Commands :
        LET r == flac_common_write(data, frame, cmd)
        IN /\ data' = r.data
           /\ event' = [kind |-> "write", frame |-> frame,
                        after_stop |-> hist.stop_returned, cmd |-> cmd,
                        status |-> r.status, steps |-> r.steps]
           /\ hist' = [hist EXCEPT
                         !.n_writes = @ + 1,
                         !.n_delivered = @ + Delivered(r.steps),
                         !.sum_blocks = @ + frame.blocksize,
                         !.stop_returned = @ \/ cmd = DECODE_COMMAND_STOP]
    /\ UNCHANGED calc

\* session teardown, at the end of the stream or after a stop
Deinit ==
    /\ Alive
    /\ LET r == flac_data_deinit(data)
       IN /\ data' = r.data
          /\ event' = [kind |-> "deinit", calls |-> r.calls]
    /\ UNCHANGED <<hist, calc>>

Next == AttachTag \/ Metadata \/ Negotiate \/ Error \/ Write \/ Deinit

Spec == Init /\ [][Next]_vars

(***************************************************************************)
(* The bit-rate computation of flac_common_write on its own, over the     *)
(* ranges of its C operands.                                               *)
(***************************************************************************)
\* byte counts, sample rates (up to the largest FLAC rate) and block sizes
\* (1000 * blocksize is not 0 modulo 2^32: the division is defined); the
\* last block size makes 1000 * blocksize exceed 32 bits
BitRateNBytes == {0, 1, 3000, 44100, 1000000, 20000000, 2147483647}
BitRateSampleRates == {8000, 44100, 96000, 655350}
BitRateBlockSizes == {1, 16, 1152, 4096, 65535, 4294968}

InitBitRate ==
    /\ data = flac_data_init(CHOOSE si \in IndeterminateStreamInfos : TRUE,
                             SAMPLE_FORMAT_UNDEFINED, 0)
    /\ event = [kind |-> "init"]
    /\ hist = [n_writes |-> 0, n_delivered |-> 0, sum_blocks |-> 0,
               streaminfo_seen |-> "none", negotiated |-> FALSE,
               stop_returned |-> FALSE, last_negotiate |-> NoNegotiate]
    /\ calc \in [nbytes : BitRateNBytes, sample_rate : BitRateSampleRates,
                 blocksize : BitRateBlockSizes, done : {FALSE},
                 bit_rate : {<<>>}]

ComputeBitRate ==
    /\ ~calc.done
    /\ calc' = [calc EXCEPT !.done = TRUE, !.bit_rate =
                    flac_bit_rate(calc.nbytes, calc.sample_rate, calc.blocksize)]
    /\ UNCHANGED <<data, event, hist>>

NextBitRate == ComputeBitRate

SpecBitRate == InitBitRate /\ [][NextBitRate]_vars

(***************************************************************************)
(* The virtual track names on their own: flac_cue_track on the outcome of  *)
(* reading a cue sheet, and flac_vtrack_tnum on a file name, either a      *)
(* given one or the one flac_cue_track made.                               *)
(***************************************************************************)
\* num_tracks of a cue sheet and track numbers asked for: none, one, a
\* few, and numbers of more than three digits
CueNumTracks == {0, 1, 2, 4, 100, 1001, 12346}
CueTrackNumbers == {0, 1, 2, 3, 4, 7, 99, 100, 999, 1000, 12345, 2147483647}

\* file names: with and without underscore, with a number, nothing, a
\* letter, white space or a sign after the last underscore
FileNames ==
    {<<"t", "r", "a", "c", "k", "_", "0", "0", "7", ".", "f", "l", "a", "c">>,
     <<"a", "l", "b", "u", "m", ".", "f", "l", "a", "c">>,
     <<"t", "r", "a", "c", "k", "_", ".", "f", "l", "a", "c">>,
     <<"m", "y", "_", "a", "l", "b", "u", "m", "_", "t", "r", "a", "c", "k", "_", "0", "1", "2", ".", "f", "l", "a", "c">>,
     <<"t", "r", "a", "c", "k", "_", "1", "2", "_", "x", ".", "f", "l", "a", "c">>,
     <<"t", "r", "a", "c", "k", "_", " ", "7", ".", "f", "l", "a", "c">>,
     <<"t", "r", "a", "c", "k", "_", "+", "7", ".", "f", "l", "a", "c">>,
     <<"t", "r", "a", "c", "k", "_", "-", "7", ".", "f", "l", "a", "c">>,
     <<"t", "r", "a", "c", "k", "_", "x", "7", ".", "f", "l", "a", "c">>,
     <<"_">>,
     <<"4", "2", "_">>,
     <<>>,
     <<"t", "r", "a", "c", "k", "_", "1", "0", "0", "0", ".", "f", "l", "a", "c">>,
     <<"t", "r", "a", "c", "k", "_", "0", "0", "0", ".", "f", "l", "a", "c">>,
     <<"t", "_", "1", "2", "3", "4", "5", "6", "7", "8", "9">>,
     <<"t", "r", "a", "c", "k", "_", "7">>}

InitTrack ==
    /\ data = flac_data_init(CHOOSE si \in IndeterminateStreamInfos : TRUE,
                             SAMPLE_FORMAT_UNDEFINED, 0)
    /\ event = [kind |-> "init"]
    /\ hist = [n_writes |-> 0, n_delivered |-> 0, sum_blocks |-> 0,
               streaminfo_seen |-> "none", negotiated |-> FALSE,
               stop_returned |-> FALSE, last_negotiate |-> NoNegotiate]
    /\ calc \in [kind : {"cue"}, success : BOOLEAN, num_tracks : CueNumTracks,
                 tnum : CueTrackNumbers, has_name : {FALSE}, fname : {<<>>},
                 stage : {"input"}, parsed : {<<>>}]
              \cup [kind : {"name"}, success : {FALSE}, num_tracks : {0},
                    tnum : {0}, has_name : {TRUE}, fname : FileNames,
                    stage : {"named"}, parsed : {<<>>}]

\* flac_cue_track(pathname, tnum); has_name is FALSE for a NULL result
CueTrack ==
    /\ calc.stage = "input"
    /\ LET r == flac_cue_track([success |-> calc.success,
                                num_tracks |-> calc.num_tracks], calc.tnum)
       IN calc' = [calc EXCEPT !.stage = "named", !.has_name = r.found,
                               !.fname = r.track]
    /\ UNCHANGED <<data, event, hist>>

\* flac_vtrack_tnum(fname), on a given name or on the one just made
VtrackTnum ==
    /\ calc.stage = "named"
    /\ calc.has_name
    /\ calc' = [calc EXCEPT !.stage = "parsed",
                            !.parsed = flac_vtrack_tnum(calc.fname)]
    /\ UNCHANGED <<data, event, hist>>

NextTrack == CueTrack \/ VtrackTnum

SpecTrack == InitTrack /\ [][NextTrack]_vars

(***************************************************************************)
(* Properties.                                                             *)
(***************************************************************************)
IsWrite == event.kind = "write"
IsError == event.kind = "error"
IsNegotiate == event.kind = "negotiate"
IsStreamInfo ==
    event.kind = "metadata" /\ event.block.type = METADATA_TYPE_STREAMINFO

\* C1: after frame-write events of block sizes b1..bk, interleaved with any
\* other events and whatever command each delivery returned, next_frame is
\* b1 + ... + bk; the write event that returns abort advances it too.
C1_NextFrameIsSum == data.next_frame = hist.sum_blocks

\* two frames of different block sizes were written, the second one aborted
C1_Witness ==
    /\ IsWrite
    /\ event.status = WRITE_STATUS_ABORT
    /\ hist.n_writes = 2
    /\ data.next_frame = 4096 + 1152

\* C2: a write event returns abort exactly when the consumer returned the
\* stop command for that frame, and continue for none, start and seek.
C2_AbortIffStop ==
    IsWrite =>
        /\ event.status \in {WRITE_STATUS_CONTINUE, WRITE_STATUS_ABORT}
        /\ event.status = WRITE_STATUS_ABORT <=> event.cmd = DECODE_COMMAND_STOP

\* a later frame of the session, with no compressed byte count, answered by
\* seek after an earlier stop: continue
C2_Witness ==
    /\ IsWrite
    /\ event.cmd = DECODE_COMMAND_SEEK
    /\ event.status = WRITE_STATUS_CONTINUE
    /\ event.after_stop
    /\ event.frame.nbytes = 0

\* C3 as stated: once a frame delivery has returned stop, no later error
\* event logs a diagnostic, whatever the consumer's command then is.
C3_SuppressedForRestOfSession ==
    (IsError /\ hist.stop_returned) => event.warning = NULL

\* C3, amended: after a frame delivery has returned stop, an error event
\* logs no diagnostic exactly when the consumer's command at the time of
\* the error event is stop.
C3_SuppressedWhileStop ==
    (IsError /\ hist.stop_returned) =>
        (event.warning = NULL <=> event.cmd = DECODE_COMMAND_STOP)

\* an error event after a delivery returned stop, the command still stop
C3_Witness ==
    /\ IsError
    /\ hist.stop_returned
    /\ event.cmd = DECODE_COMMAND_STOP
    /\ event.warning = NULL

\* C4: with stream info captured, the format derived is S8, S16, S24-in-32,
\* S32 for 8, 16, 24, 32 bits per sample and undefined for any other width;
\* negotiation succeeds, with that format and the rate and channels of the
\* stream info, exactly when the width is one of the four and the
\* validating constructor accepts the rate and the channel count; when it
\* fails it yields no audio format and the validation message.
C4_ExpectedFormat(bits) ==
    IF bits = 8 THEN SAMPLE_FORMAT_S8
    ELSE IF bits = 16 THEN SAMPLE_FORMAT_S16
    ELSE IF bits = 24 THEN SAMPLE_FORMAT_S24_P32
    ELSE IF bits = 32 THEN SAMPLE_FORMAT_S32
    ELSE SAMPLE_FORMAT_UNDEFINED

C4_NegotiateByBits ==
    (IsNegotiate /\ data.have_stream_info) =>
        LET si == data.stream_info
            accepted == audio_format_init_checked(si.sample_rate,
                                                  SAMPLE_FORMAT_S16,
                                                  si.channels).ok
        IN /\ data.sample_format = C4_ExpectedFormat(si.bits_per_sample)
           /\ event.ok <=> (accepted /\ si.bits_per_sample \in {8, 16, 24, 32})
           /\ event.ok =>
                 event.audio_format =
                     [sample_rate |-> si.sample_rate,
                      format |-> C4_ExpectedFormat(si.bits_per_sample),
                      channels |-> si.channels]
           /\ ~event.ok =>
                 /\ event.audio_format = NULL
                 /\ event.warning \in {"Invalid sample rate",
                                       "Invalid sample format",
                                       "Invalid channel count"}
           /\ (si.sample_rate = 0 \/ si.channels = 0) => ~event.ok

\* a 24-bit stream negotiated as S24-in-32
C4_Witness ==
    /\ IsNegotiate
    /\ event.ok
    /\ data.stream_info.bits_per_sample = 24
    /\ event.audio_format.format = SAMPLE_FORMAT_S24_P32

FrameSizeMatches(d) ==
    d.frame_size = d.stream_info.channels * sample_width_bytes(d.sample_format)

\* C5 as stated: in every state after a successful negotiation, frame_size
\* is channels * sample width of the session's stream info and sample
\* format, whatever metadata, write, error and negotiate events follow.
C5_FrameSizeAlwaysMatches == hist.negotiated => FrameSizeMatches(data)

\* C5, amended: every successful negotiation leaves frame_size equal to
\* channels * sample width, and the equality then survives every event
\* except a STREAMINFO block with another channel count and a failing
\* negotiation (the next successful negotiation restores it).
C5_FrameSizeAfterNegotiate ==
    [][/\ (IsNegotiate' /\ event'.ok) => FrameSizeMatches(data')
       /\ (/\ FrameSizeMatches(data)
           /\ data'.stream_info.channels = data.stream_info.channels
           /\ ~(IsNegotiate' /\ ~event'.ok))
             => FrameSizeMatches(data')]_vars

\* a second STREAMINFO block was negotiated again: two channels of 4 bytes
C5_Witness ==
    /\ IsNegotiate
    /\ event.ok
    /\ hist.streaminfo_seen = "several"
    /\ hist.n_writes > 0
    /\ data.frame_size = 8
    /\ FrameSizeMatches(data)

\* C6: negotiation in a session that has seen no STREAMINFO block fails
\* with the "no STREAMINFO" warning, yields no audio format and leaves
\* sample_format and frame_size as they were; a negotiation succeeds only
\* in a session that has seen a STREAMINFO block.
C6_NoStreamInfoNoFormat ==
    [][IsNegotiate' =>
          /\ hist.streaminfo_seen = "none" =>
                /\ ~event'.ok
                /\ event'.warning = "no STREAMINFO packet found"
                /\ event'.audio_format = NULL
                /\ data'.sample_format = data.sample_format
                /\ data'.frame_size = data.frame_size
          /\ event'.ok => hist.streaminfo_seen # "none"]_vars

\* a failed negotiation before any STREAMINFO block; the unset fields are
\* still what they were
C6_Witness ==
    /\ IsNegotiate
    /\ hist.streaminfo_seen = "none"
    /\ ~event.ok
    /\ event.warning = "no STREAMINFO packet found"
    /\ data.sample_format = SAMPLE_FORMAT_S16
    /\ data.frame_size = 4

\* C7 as stated: once captured, stream_info never changes (the first
\* STREAMINFO block wins).
C7_FirstBlockWins ==
    [][data.have_stream_info => data'.stream_info = data.stream_info]_vars

\* C7, amended: once captured, stream_info is changed only by a later
\* STREAMINFO block, which replaces it (the last block wins); comment and
\* other metadata blocks, write, error and negotiate events leave it as
\* it is.
C7_ChangedOnlyByStreamInfo ==
    [][data'.stream_info # data.stream_info =>
          /\ IsStreamInfo'
          /\ data'.stream_info = event'.block.stream_info]_vars

\* a stereo stream was negotiated, a later STREAMINFO block made it mono,
\* and a comment block after that left the mono stream info in place
C7_Witness ==
    /\ event.kind = "metadata"
    /\ event.block.type = METADATA_TYPE_VORBIS_COMMENT
    /\ hist.streaminfo_seen = "several"
    /\ data.have_stream_info
    /\ data.frame_size = 4
    /\ data.stream_info.channels = 1

\* C8: every STREAMINFO block, also a second and later one, is stored:
\* after the event stream_info is the block just seen and the captured
\* flag is set; the handler makes no call and reports no error.
C8_LastWriteWins ==
    IsStreamInfo =>
        /\ data.stream_info = event.block.stream_info
        /\ data.have_stream_info
        /\ event.calls = <<>>

\* a later STREAMINFO block that differs from the negotiated one
C8_Witness ==
    /\ IsStreamInfo
    /\ hist.streaminfo_seen = "several"
    /\ hist.negotiated
    /\ data.stream_info.channels = 1
    /\ data.frame_size = 4

\* floor(nbytes * 8 * sample_rate / (1000 * blocksize)) in arithmetic wide
\* enough (16 bytes) to be exact for operands below 2^31
ExactBitRate(nbytes, sample_rate, blocksize) ==
    Div(Mul(Mul(ToBytes(nbytes, 16), ToBytes(8, 16), 16),
            ToBytes(sample_rate, 16), 16),
        Mul(ToBytes(1000, 16), ToBytes(blocksize, 16), 16))

\* C9 (checked under SpecBitRate): the bit rate is 0 for nbytes = 0 and
\* otherwise floor(nbytes * 8 * sample_rate / (1000 * blocksize)), also
\* where 1000 * blocksize or the quotient exceeds 32 bits.
C9_BitRateIsFloor ==
    calc.done =>
        Convert(calc.bit_rate, 16) =
            IF calc.nbytes = 0 THEN Zeros(16)
            ELSE ExactBitRate(calc.nbytes, calc.sample_rate, calc.blocksize)

\* what the code does compute: the floor whenever 1000 * blocksize and the
\* quotient both fit the 32 bits of an unsigned
Fits32(a) == \A i \in 5..Len(a) : a[i] = 0
BitRateIsFloorWithin32Bits ==
    (/\ calc.done
     /\ calc.nbytes > 0
     /\ Fits32(Mul(ToBytes(1000, 16), ToBytes(calc.blocksize, 16), 16))
     /\ Fits32(ExactBitRate(calc.nbytes, calc.sample_rate, calc.blocksize)))
        => Convert(calc.bit_rate, 16) =
               ExactBitRate(calc.nbytes, calc.sample_rate, calc.blocksize)

\* C10: a write event acquires the buffer, converts the frame, delivers it
\* to the consumer, advances next_frame and only then returns its status;
\* every write event delivers exactly one buffer, the one it acquired, also
\* the event that returns abort and an event that follows an earlier stop.
C10_DeliveredBeforeStatus ==
    /\ hist.n_delivered = hist.n_writes
    /\ IsWrite =>
          /\ [i \in 1..Len(event.steps) |-> event.steps[i].step] =
                 <<"pcm_buffer_get", "flac_convert", "decoder_data",
                   "next_frame", "return">>
          /\ Delivered(event.steps) = 1
          /\ event.steps[3].length = event.steps[1].size
          /\ event.steps[5].status = event.status

\* a write event after an earlier stop, itself answered by stop: the
\* frame was still delivered
C10_Witness ==
    /\ IsWrite
    /\ event.after_stop
    /\ event.status = WRITE_STATUS_ABORT
    /\ hist.n_writes = 2
    /\ hist.n_delivered = 2

\* C11: in every write event the bytes the converter writes, the size of
\* the region requested from the buffer and the length delivered to the
\* consumer are all blocksize * frame_size, and the converter stays inside
\* the acquired region, whatever channel count and block size the frame
\* header carries.
C11_ConverterFillsRegion ==
    IsWrite =>
        LET region == event.frame.blocksize * data.frame_size
        IN /\ event.steps[1].size = region
           /\ event.steps[2].written = region
           /\ event.steps[3].length = region
           /\ event.steps[2].written <= data.buffer.size

\* what the code does guarantee: the region requested and the length
\* delivered are blocksize * frame_size, and the converter fills exactly
\* that region when the header's channel count is the negotiated one and
\* frame_size still matches the session's stream info and sample format
RegionIsBlockTimesFrameSize ==
    IsWrite =>
        LET region == event.frame.blocksize * data.frame_size
        IN /\ event.steps[1].size = region
           /\ event.steps[3].length = region
           /\ region <= data.buffer.size
           /\ (/\ FrameSizeMatches(data)
               /\ event.frame.channels = data.stream_info.channels)
                 => event.steps[2].written = region

IsDeinit == event.kind = "deinit"

\* C12: each write event acquires a region of at least the size it asks
\* for; the capacity of the buffer never shrinks while the session lives,
\* whatever command a delivery returns; a request that fits the capacity
\* leaves it as it is; the capacity falls, to zero, only at teardown.
C12_CapacityMonotone ==
    [][/\ IsWrite' =>
            /\ data'.buffer.size >= event'.steps[1].size
            /\ data'.buffer.size >= data.buffer.size
            /\ event'.steps[1].size <= data.buffer.size
                  => data'.buffer.size = data.buffer.size
       /\ data'.buffer.size < data.buffer.size => IsDeinit'
       /\ IsDeinit' => data'.buffer.size = 0]_vars

\* a second, smaller frame answered by seek reused the 16384-byte buffer
\* of the first
C12_Witness ==
    /\ IsWrite
    /\ hist.n_writes = 2
    /\ event.cmd = DECODE_COMMAND_SEEK
    /\ event.steps[1].size = 2304
    /\ data.buffer.size = 16384

\* teardown released a buffer that had grown
C12_WitnessTeardown ==
    /\ IsDeinit
    /\ hist.n_writes = 2
    /\ data.buffer.size = 0

IsCueTrack == calc.kind = "cue" /\ calc.stage # "input"

RECURSIVE DecimalValue(_)
\* the number a sequence of decimal digits denotes
DecimalValue(s) ==
    IF s = <<>> THEN 0
    ELSE DecimalValue(SubSeq(s, 1, Len(s) - 1)) * 10 + DigitValue(s[Len(s)])

\* C13 (checked under SpecTrack): flac_cue_track gives a name exactly when
\* the cue sheet was read, has more than one track and
\* 1 <= tnum < num_tracks; the name is "track_", the decimal digits of
\* tnum zero-padded to three, and the extension; it gives none otherwise.
C13_NameIffInRange ==
    IsCueTrack =>
        /\ calc.has_name <=>
              (calc.success /\ calc.num_tracks > 1
               /\ 1 <= calc.tnum /\ calc.tnum < calc.num_tracks)
        /\ calc.has_name =>
              LET n == Len(calc.fname)
                  digits == SubSeq(calc.fname, 7, n - 5)
              IN /\ n >= 14
                 /\ SubSeq(calc.fname, 1, 6) = <<"t", "r", "a", "c", "k", "_">>
                 /\ SubSeq(calc.fname, n - 4, n) = <<".", "f", "l", "a", "c">>
                 /\ \A i \in 1..Len(digits) : isdigit(digits[i])
                 /\ DecimalValue(digits) = calc.tnum
                 /\ Len(digits) > 3 => digits[1] # "0"
        /\ (calc.num_tracks = 4 /\ calc.tnum = 2 /\ calc.success) =>
              calc.fname = <<"t", "r", "a", "c", "k", "_", "0", "0", "2",
                             ".", "f", "l", "a", "c">>

\* track 2 of 4 was named track_002.flac
C13_Witness ==
    /\ IsCueTrack
    /\ calc.success
    /\ calc.num_tracks = 4
    /\ calc.tnum = 2
    /\ calc.has_name
    /\ calc.fname[9] = "2"

\* track 4 of 4 got no name
C13_WitnessNone ==
    /\ IsCueTrack
    /\ calc.success
    /\ calc.num_tracks = 4
    /\ calc.tnum = 4
    /\ ~calc.has_name

IsParsed == calc.stage = "parsed"

\* the text of a name after its last underscore (the whole name when it
\* has none)
AfterLastUnderscore(name) ==
    LET under == {i \in 1..Len(name) : name[i] = "_"}
    IN SubSeq(name, Cardinality({i \in 1..Len(name) :
                                    \E j \in under : i <= j}) + 1, Len(name))

HasUnderscore(name) == \E i \in 1..Len(name) : name[i] = "_"

\* the digits a text starts with
LeadingDigits(s) ==
    SubSeq(s, 1, Cardinality({k \in 1..Len(s) :
                                 \A i \in 1..k : isdigit(s[i])}))

\* C14 (checked under SpecTrack): flac_vtrack_tnum returns the decimal
\* number formed by the digits that directly follow the last underscore of
\* the name, and 0 when the name has no underscore or the text after the
\* last underscore does not start with a digit.
C14_LeadingDigitsAfterUnderscore ==
    IsParsed =>
        calc.parsed =
            IF HasUnderscore(calc.fname)
            THEN ToBytes(DecimalValue(LeadingDigits(
                             AfterLastUnderscore(calc.fname))), 4)
            ELSE Zeros(4)

\* what the code does return: the claimed number whenever the text after
\* the last underscore starts with neither white space nor a sign
TnumOfUnsignedSuffix ==
    (/\ IsParsed
     /\ LET s == AfterLastUnderscore(calc.fname)
        IN ~(HasUnderscore(calc.fname) /\ s # <<>>
             /\ (isspace(s[1]) \/ s[1] \in {"+", "-"})))
        => calc.parsed =
               IF HasUnderscore(calc.fname)
               THEN ToBytes(DecimalValue(LeadingDigits(
                                AfterLastUnderscore(calc.fname))), 4)
               ELSE Zeros(4)

\* "track_007.flac" gave 7 and "album.flac" gave 0
TnumExamples ==
    IsParsed =>
        /\ calc.fname = <<"t", "r", "a", "c", "k", "_", "0", "0", "7",
                          ".", "f", "l", "a", "c">> => calc.parsed = <<7, 0, 0, 0>>
        /\ calc.fname = <<"a", "l", "b", "u", "m", ".", "f", "l", "a", "c">>
              => calc.parsed = <<0, 0, 0, 0>>

\* C19 (checked under SpecTrack): for a cue sheet of more than one track
\* and 1 <= tnum < num_tracks, flac_vtrack_tnum of the name flac_cue_track
\* makes for tnum is tnum, also for a tnum of more than three digits.
C19_RoundTrip ==
    /\ (IsParsed /\ calc.kind = "cue") => calc.parsed = ToBytes(calc.tnum, 4)
    /\ (IsCueTrack /\ calc.success /\ calc.num_tracks > 1
        /\ 1 <= calc.tnum /\ calc.tnum < calc.num_tracks /\ ~IsParsed)
          => /\ calc.has_name
             /\ flac_vtrack_tnum(calc.fname) = ToBytes(calc.tnum, 4)

\* track 12345 of 12346 came back from its five-digit name
C19_Witness ==
    /\ IsParsed
    /\ calc.kind = "cue"
    /\ calc.tnum = 12345
    /\ Len(calc.fname) = 16
    /\ calc.parsed = <<57, 48, 0, 0>>

IsComment ==
    event.kind = "metadata" /\ event.block.type = METADATA_TYPE_VORBIS_COMMENT

\* how often a call is made in a sequence of calls
Count(calls, name) == Cardinality({i \in 1..Len(calls) : calls[i] = name})

\* C15: a comment block from which replay gain is extracted notifies the
\* consumer exactly once and releases the extracted structure right after
\* the notification; with none extracted nothing is notified or released.
\* Whatever the replay gain, the comments are merged, once, into the
\* session's tag exactly when the session has one, after the replay gain
\* is dealt with, and the tag pointer stays the same.  The event changes
\* no field of the session: not stream_info, the captured flag,
\* frame_size, the frame offsets, nor anything that would retain the
\* replay gain.
C15_CommentBlock ==
    [][IsComment' =>
          LET calls == event'.calls
              gain == event'.block.replay_gain
              tagged == data.tag # NULL
          IN /\ Count(calls, "decoder_replay_gain") = (IF gain THEN 1 ELSE 0)
             /\ Count(calls, "replay_gain_info_free") = (IF gain THEN 1 ELSE 0)
             /\ gain => /\ calls[1] = "decoder_replay_gain"
                        /\ calls[2] = "replay_gain_info_free"
             /\ Count(calls, "flac_vorbis_comments_to_tag") =
                    (IF tagged THEN 1 ELSE 0)
             /\ tagged => calls[Len(calls)] = "flac_vorbis_comments_to_tag"
             /\ Len(calls) = (IF gain THEN 2 ELSE 0) + (IF tagged THEN 1 ELSE 0)
             /\ data'.tag = data.tag
             /\ data'.stream_info = data.stream_info
             /\ data'.have_stream_info = data.have_stream_info
             /\ data'.frame_size = data.frame_size
             /\ data'.first_frame = data.first_frame
             /\ data'.next_frame = data.next_frame
             /\ data' = data]_vars

\* a comment block with replay gain in a session with a tag, after frames
\* were written: notified, released, merged
C15_Witness ==
    /\ IsComment
    /\ event.block.replay_gain
    /\ data.tag # NULL
    /\ hist.n_writes > 0
    /\ event.calls = <<"decoder_replay_gain", "replay_gain_info_free",
                       "flac_vorbis_comments_to_tag">>

\* a comment block without replay gain in a session without a tag: no call
C15_WitnessNothing ==
    /\ IsComment
    /\ ~event.block.replay_gain
    /\ data.tag = NULL
    /\ event.calls = <<>>

IsOtherBlock ==
    /\ event.kind = "metadata"
    /\ event.block.type \notin {METADATA_TYPE_STREAMINFO,
                                METADATA_TYPE_VORBIS_COMMENT}

\* C16: a metadata block that is neither STREAMINFO nor a comment block
\* (cue sheet, padding, a type the core does not know) leaves every field
\* of the session as it was and makes no call: nothing reaches the
\* consumer, nothing is logged.
C16_OtherBlockIgnored ==
    [][IsOtherBlock' => (data' = data /\ event'.calls = <<>>)]_vars

\* a block of a type the core does not know, in a session with a tag,
\* stream info and written frames
C16_Witness ==
    /\ IsOtherBlock
    /\ event.block.type = METADATA_TYPE_UNDEFINED
    /\ data.tag # NULL
    /\ data.have_stream_info
    /\ hist.n_writes = 2

C17_Classification(status) ==
    IF status = ERROR_STATUS_LOST_SYNC THEN "lost sync"
    ELSE IF status = ERROR_STATUS_BAD_HEADER THEN "bad header"
    ELSE IF status = ERROR_STATUS_FRAME_CRC_MISMATCH THEN "crc mismatch"
    ELSE "unknown error"

\* C17: an error event while the consumer's command is not stop logs one
\* warning that names the plugin once and says lost sync, bad header or
\* crc mismatch for these statuses and unknown error for any other; while
\* the command is stop it logs nothing.  Either way the session and its
\* history are as before, and the event carries no status back to the
\* decoding library, so the frames written later are treated as they
\* would have been without it.
C17_ErrorOnlyLogs ==
    [][IsError' =>
          /\ data' = data
          /\ hist' = hist
          /\ DOMAIN event' =
                 {"kind", "plugin", "status", "cmd", "warning", "text"}
          /\ event'.cmd = DECODE_COMMAND_STOP =>
                 (event'.warning = NULL /\ event'.text = <<>>)
          /\ event'.cmd # DECODE_COMMAND_STOP =>
                 /\ event'.warning = C17_Classification(event'.status)
                 /\ Count(event'.text, event'.plugin) = 1]_vars

\* an unparseable-stream error of the OggFLAC plugin between two frames,
\* the consumer seeking: logged as unknown
C17_Witness ==
    /\ IsError
    /\ event.plugin = "oggflac"
    /\ event.status = ERROR_STATUS_UNPARSEABLE_STREAM
    /\ event.cmd = DECODE_COMMAND_SEEK
    /\ event.text = <<"unknown ", "oggflac", " error\n">>
    /\ hist.n_writes = 1

\* C18: a negotiation that follows an earlier one with no STREAMINFO block
\* in between, whatever other events came in between, has the outcome of
\* the earlier one, gives the same audio format, and leaves sample_format
\* and frame_size as the earlier one left them.
C18_NegotiateIdempotent ==
    [][(IsNegotiate' /\ hist.last_negotiate.valid) =>
          LET first == hist.last_negotiate
          IN /\ event'.ok = first.ok
             /\ event'.audio_format = first.audio_format
             /\ data'.sample_format = first.sample_format
             /\ data'.frame_size = first.frame_size
             /\ hist'.last_negotiate = first]_vars

\* a second successful negotiation after a frame was written, with the
\* 24-bit stereo format of the first
C18_Witness ==
    /\ IsNegotiate
    /\ event.ok
    /\ hist.n_writes = 1
    /\ hist.streaminfo_seen = "one"
    /\ event.audio_format.format = SAMPLE_FORMAT_S24_P32
    /\ data.frame_size = 8
    /\ data.buffer.size > 0

\* a negotiation that fails as the one before it did, on a 12-bit stream
C18_WitnessFailure ==
    /\ IsNegotiate
    /\ ~event.ok
    /\ hist.streaminfo_seen = "one"
    /\ data.stream_info.bits_per_sample = 12
    /\ data.sample_format = SAMPLE_FORMAT_UNDEFINED

\* C20: a write event changes next_frame and the buffer only: the captured
\* flag, stream_info, sample_format, frame_size, first_frame, position and
\* tag are as before, whichever command the consumer returned.  No event
\* of the session changes first_frame, which stays 0 from flac_data_init,
\* and the captured flag, once set, stays set.
C20_WriteFrame ==
    [][/\ IsWrite' =>
            /\ event'.cmd \in Commands
            /\ [data' EXCEPT !.next_frame = data.next_frame,
                             !.buffer = data.buffer] = data
            /\ data'.have_stream_info = data.have_stream_info
            /\ data'.stream_info = data.stream_info
            /\ data'.sample_format = data.sample_format
            /\ data'.frame_size = data.frame_size
            /\ data'.position = data.position
            /\ data'.tag = data.tag
       /\ data'.first_frame = data.first_frame
       /\ data'.first_frame = 0
       /\ data.have_stream_info => data'.have_stream_info]_vars

\* a frame written in a session with a tag, answered by seek: the buffer
\* grew, next_frame advanced, the rest is as it was
C20_Witness ==
    /\ IsWrite
    /\ event.cmd = DECODE_COMMAND_SEEK
    /\ data.tag # NULL
    /\ data.have_stream_info
    /\ data.first_frame = 0
    /\ data.next_frame = 4096
    /\ data.buffer.size = 8192

====
